---- MODULE Spec2Model ----
(***************************************************************************)
(* Type-directed dispatch and deserialization of jsons:                    *)
(*   jsons/_common_impl.py  dump, load, _get_deserializer, the registries  *)
(*   jsons/_load_impl.py    load, loads, _should_skip,                     *)
(*                          _check_and_get_cls_and_meta_hints              *)
(* Every call is synchronous and runs to completion, so one action is one  *)
(* whole call; the variable `last` records the call: its arguments, the    *)
(* steps it performed in order, and how it ended.                          *)
(***************************************************************************)
EXTENDS Integers, Sequences, FiniteSets, TLC

VARIABLES SERIALIZERS, DESERIALIZERS, CLASSES_SERIALIZERS,
          CLASSES_DESERIALIZERS, last

vars == <<SERIALIZERS, DESERIALIZERS, CLASSES_SERIALIZERS,
          CLASSES_DESERIALIZERS, last>>

----------------------------------------------------------------------------
(* Python objects of the model: types, values, type names.                 *)

\* Python's None, as a value of a cls parameter, of a dict lookup, ...
None == "None"

\* typing.Any
AnyType == "Any"

\* _common_impl.py:7
VALID_TYPES == {"str", "int", "float", "bool", "list", "tuple", "set",
                "dict", "NoneType"}

\* User classes: class Base, class Middle(Base), class base,
\* class Child(Middle, base), class Foo.  The names of Base and base differ
\* in case only.
UserClasses == {"Base", "Middle", "base", "Child", "Foo"}

\* Middle[int], a parameterised generic: it has no __name__, its __origin__
\* is Middle.
GenericAliases == {"Middle[int]"}

Classes == VALID_TYPES \cup UserClasses

\* cls.__name__, as the sequence of its characters
__name__(cls) ==
    CASE cls = "str"      -> <<"s", "t", "r">>
      [] cls = "int"      -> <<"i", "n", "t">>
      [] cls = "float"    -> <<"f", "l", "o", "a", "t">>
      [] cls = "bool"     -> <<"b", "o", "o", "l">>
      [] cls = "list"     -> <<"l", "i", "s", "t">>
      [] cls = "tuple"    -> <<"t", "u", "p", "l", "e">>
      [] cls = "set"      -> <<"s", "e", "t">>
      [] cls = "dict"     -> <<"d", "i", "c", "t">>
      [] cls = "NoneType" -> <<"N", "o", "n", "e", "T", "y", "p", "e">>
      [] cls = "Base"     -> <<"B", "a", "s", "e">>
      [] cls = "Middle"   -> <<"M", "i", "d", "d", "l", "e">>
      [] cls = "base"     -> <<"b", "a", "s", "e">>
      [] cls = "Child"    -> <<"C", "h", "i", "l", "d">>
      [] cls = "Foo"      -> <<"F", "o", "o">>

\* hasattr(cls, '__name__')
has__name__(cls) == cls \in Classes

\* cls.__origin__ of a parameterised generic
__origin__(cls) == CASE cls = "Middle[int]" -> "Middle"

\* hasattr(cls, '__slots__')
has__slots__(cls) == cls \in {"Base", "Middle"}

UpperCase == <<"A", "B", "C", "D", "E", "F", "G", "H", "I", "J", "K", "L", "M",
               "N", "O", "P", "Q", "R", "S", "T", "U", "V", "W", "X", "Y", "Z">>

LowerCase == <<"a", "b", "c", "d", "e", "f", "g", "h", "i", "j", "k", "l", "m",
               "n", "o", "p", "q", "r", "s", "t", "u", "v", "w", "x", "y", "z">>

\* str.lower()
lower(str_) ==
    [i \in DOMAIN str_ |->
        IF \E k \in DOMAIN UpperCase : UpperCase[k] = str_[i]
        THEN LowerCase[CHOOSE k \in DOMAIN UpperCase : UpperCase[k] = str_[i]]
        ELSE str_[i]]

\* The direct and indirect bases of a class, the class itself included.
Mro(cls) ==
    CASE cls = "Child"  -> {"Child", "Middle", "Base", "base"}
      [] cls = "Middle" -> {"Middle", "Base"}
      [] OTHER          -> {cls}

\* issubclass(cls, cls_) for a class cls
issubclass(cls, cls_) == cls_ \in Mro(cls)

\* The values handed to load and dump.  `type` is type(value); `meta` is the
\* class named under the reserved key of a dict, None when there is none.
Values ==
    { [id |-> "None",     type |-> "NoneType", meta |-> None],
      [id |-> "'s'",      type |-> "str",      meta |-> None],
      [id |-> "{}",       type |-> "dict",     meta |-> None],
      [id |-> "{-cls}",   type |-> "dict",     meta |-> "Middle"],
      [id |-> "Foo()",    type |-> "Foo",      meta |-> None],
      [id |-> "Middle()", type |-> "Middle",   meta |-> None],
      [id |-> "Child()",  type |-> "Child",    meta |-> None] }

\* The values handed to load, and the objects handed to dump.
LoadValues == {v \in Values : v.id \in {"None", "'s'", "{}", "{-cls}", "Foo()"}}

DumpValues == {v \in Values : v.id \in {"Foo()", "Middle()", "Child()"}}

PyNone == [id |-> "None", type |-> "NoneType", meta |-> None]

\* type(obj)
type(obj) == obj.type

\* isinstance(obj, cls)
isinstance(obj, cls) == issubclass(type(obj), cls)

\* The converter function written for one class, and "no function".
SerializerOf(cls) == <<"serializer", cls>>

DeserializerOf(cls) == <<"deserializer", cls>>

NoFunction == <<"None", "None">>

\* dict.get(key, None)
get(dict, key) == IF key \in DOMAIN dict THEN dict[key] ELSE NoFunction

\* dict[key] = value
setitem(dict, key, value) ==
    [k \in DOMAIN dict \cup {key} |-> IF k = key THEN value ELSE dict[k]]

\* The classes that get converters registered.
Registrable == {"Base", "Middle", "base"}

----------------------------------------------------------------------------
(* The record of a call: the steps it performed and how it ended.          *)

NoValue == [id |-> "no value", type |-> None, meta |-> None]

NoError == [type |-> None, msg |-> None, json_obj |-> None, cls |-> None,
            raised_at |-> 0, normalized |-> 0]

\* One step of a call: `depth` is the nesting depth of the load (or dump)
\* performing it, `json_obj` and `cls` are that call's value and its type
\* at that point, `fn` the converter concerned.
Event(name, depth, obj, cls, fn) ==
    [name |-> name, depth |-> depth, json_obj |-> obj.id, cls |-> cls,
     fn |-> fn]

Return(value, events) ==
    [kind |-> "return", value |-> value, err |-> NoError, events |-> events]

Raise(err, events) ==
    [kind |-> "raise", value |-> NoValue, err |-> err, events |-> events]

\* An exception object.  raised_at and normalized are bookkeeping: the
\* depth of the call that created the object, and how many times an error
\* was turned into a DeserializationError on the way to this object.
Error(type_, msg, json_obj, cls, depth, normalized) ==
    [type |-> type_, msg |-> msg, json_obj |-> json_obj, cls |-> cls,
     raised_at |-> depth, normalized |-> normalized]

\* jsons.exceptions: the library's structured errors derive from JsonsError.
JsonsErrors == {"JsonsError", "DeserializationError", "DecodeError",
                "UnknownClassError"}

\* isinstance(err, JsonsError)
IsJsonsError(err) == err.type \in JsonsErrors

\* What a converter does when it is invoked: it returns, it raises, or (a
\* deserializer of a composite) it calls load for an attribute.
ReturnStep == [do |-> "return", exc |-> None, msg |-> None,
               json_obj |-> NoValue, cls |-> None]

RaiseStep(exc, msg) == [do |-> "raise", exc |-> exc, msg |-> msg,
                        json_obj |-> NoValue, cls |-> None]

LoadStep(json_obj, cls) == [do |-> "load", exc |-> None, msg |-> None,
                            json_obj |-> json_obj, cls |-> cls]

Messages == {"m1", "m2"}

LeafSteps == {ReturnStep}
             \cup {RaiseStep("ValueError", m) : m \in Messages}
             \cup {RaiseStep("DeserializationError", "m1")}

CommonSteps == {ReturnStep, RaiseStep("ValueError", "m1")}

\* The value a converter returns.
ResultOf(fn, obj) == [id |-> "result", type |-> fn[2], meta |-> obj.id]

\* fn(obj, cls, **kwargs) for a converter fn of the registries, or for None:
\* calling None raises TypeError.
Invoke(fn, obj, cls, step, depth, events) ==
    IF fn = NoFunction
    THEN Raise(Error("TypeError", "'NoneType' object is not callable",
                     None, None, depth, 0), events)
    ELSE LET evs == Append(events, Event("converter", depth, obj, cls, fn))
         IN  IF step.do = "raise"
             THEN Raise(Error(step.exc, step.msg, obj.id, cls, depth, 0), evs)
             ELSE Return(ResultOf(fn, obj), evs)

----------------------------------------------------------------------------
(* jsons/_common_impl.py                                                   *)

\* The result of a lookup: the converter, or the TypeError of issubclass()
\* when its first argument is not a class.
Found(fn) == [fn |-> fn, raised |-> FALSE]

LookupTypeError == [fn |-> NoFunction, raised |-> TRUE]

\* _get_deserializer scanning the fallback list without the issubclass test.
_get_deserializer_any_parent(cls) ==
    LET cls_name == IF has__name__(cls) THEN __name__(cls)
                    ELSE __name__(__origin__(cls))
        deserializer == get(DESERIALIZERS, lower(cls_name))
    IN  IF deserializer # NoFunction THEN Found(deserializer)
        ELSE IF CLASSES_DESERIALIZERS # <<>>
        THEN Found(DESERIALIZERS[lower(__name__(CLASSES_DESERIALIZERS[1]))])
        ELSE Found(deserializer)

\* _get_deserializer scanning the fallback list before the exact entry.
_get_deserializer_parents_first(cls) ==
    LET cls_name == IF has__name__(cls) THEN __name__(cls)
                    ELSE __name__(__origin__(cls))
        deserializer == get(DESERIALIZERS, lower(cls_name))
        parents == SelectSeq(CLASSES_DESERIALIZERS,
                             LAMBDA cls_ : cls \in Classes /\ issubclass(cls, cls_))
    IN  IF parents # <<>>
        THEN Found(DESERIALIZERS[lower(__name__(parents[1]))])
        ELSE Found(deserializer)

_get_deserializer(cls) ==
    LET cls_name == IF has__name__(cls) THEN __name__(cls)
                    ELSE __name__(__origin__(cls))
        deserializer == get(DESERIALIZERS, lower(cls_name))
    IN  IF deserializer # NoFunction THEN Found(deserializer)
        ELSE IF cls \notin Classes /\ CLASSES_DESERIALIZERS # <<>>
        THEN LookupTypeError
        ELSE LET parents == SelectSeq(CLASSES_DESERIALIZERS,
                                      LAMBDA cls_ : issubclass(cls, cls_))
             IN  IF parents # <<>>
                 THEN Found(DESERIALIZERS[lower(__name__(parents[1]))])
                 ELSE Found(deserializer)

\* The serializer lookup of dump (lines 36-43).
_get_serializer(obj, cls) ==
    LET cls_ == IF cls # None THEN cls ELSE type(obj)
        cls_name == lower(__name__(cls_))
        serializer == get(SERIALIZERS, cls_name)
    IN  IF serializer # NoFunction THEN serializer
        ELSE LET parents == SelectSeq(CLASSES_SERIALIZERS,
                                      LAMBDA cls_ser : isinstance(obj, cls_ser))
             IN  IF parents # <<>>
                 THEN SERIALIZERS[lower(__name__(parents[1]))]
                 ELSE serializer

\* dump looking the serializer up by the runtime type of obj, whatever cls.
dump_by_runtime_type(obj, cls, step) ==
    IF cls # None /\ ~has__slots__(cls)
    THEN Raise(Error("KeyError", "Invalid type", obj.id, cls, 0, 0), <<>>)
    ELSE LET cls_ == type(obj)
             cls_name == lower(__name__(cls_))
             exact == get(SERIALIZERS, cls_name)
             serializer == _get_serializer(obj, None)
             evs == <<Event("SERIALIZERS.get", 0, obj, cls_, exact)>>
                    \o (IF exact = NoFunction
                        THEN <<Event("scan", 0, obj, cls_, serializer)>>
                        ELSE <<>>)
         IN  Invoke(serializer, obj, cls, step, 0, evs)

dump(obj, cls, step) ==
    IF cls # None /\ ~has__slots__(cls)
    THEN Raise(Error("KeyError", "Invalid type", obj.id, cls, 0, 0), <<>>)
    ELSE LET cls_ == IF cls # None THEN cls ELSE type(obj)
             cls_name == lower(__name__(cls_))
             exact == get(SERIALIZERS, cls_name)
             serializer == _get_serializer(obj, cls)
             evs == <<Event("SERIALIZERS.get", 0, obj, cls_, exact)>>
                    \o (IF exact = NoFunction
                        THEN <<Event("scan", 0, obj, cls_, serializer)>>
                        ELSE <<>>)
         IN  Invoke(serializer, obj, cls, step, 0, evs)

\* load of _common_impl.py
common_load(json_obj, cls, strict, step) ==
    IF ~strict /\ type(json_obj) = cls THEN Return(json_obj, <<>>)
    ELSE IF type(json_obj) \notin VALID_TYPES
    THEN Raise(Error("KeyError", "Invalid type", json_obj.id, cls, 0, 0), <<>>)
    ELSE LET cls_ == IF cls # None THEN cls ELSE type(json_obj)
             found == _get_deserializer(cls_)
             evs == <<Event("_get_deserializer", 0, json_obj, cls_, found.fn)>>
         IN  IF found.raised
             THEN Raise(Error("TypeError", "issubclass() arg 1 must be a class",
                              None, None, 0, 0), evs)
             ELSE Invoke(found.fn, json_obj, cls_, step, 0, evs)

\* set_serializer and set_deserializer: the entry under the identifier is
\* overwritten, the class is appended to the fallback list unless present.
Contains(seq, x) == \E i \in DOMAIN seq : seq[i] = x

NoCall == [op |-> "none", obj |-> NoValue, text |-> None, cls |-> None,
           strict |-> FALSE, inferred_cls |-> FALSE,
           script |-> <<>>, out |-> Return(NoValue, <<>>)]

set_serializer(cls) ==
    /\ SERIALIZERS' = setitem(SERIALIZERS, lower(__name__(cls)), SerializerOf(cls))
    /\ CLASSES_SERIALIZERS' = IF Contains(CLASSES_SERIALIZERS, cls)
                              THEN CLASSES_SERIALIZERS
                              ELSE Append(CLASSES_SERIALIZERS, cls)
    /\ last' = NoCall
    /\ UNCHANGED <<DESERIALIZERS, CLASSES_DESERIALIZERS>>

set_deserializer(cls) ==
    /\ DESERIALIZERS' = setitem(DESERIALIZERS, lower(__name__(cls)), DeserializerOf(cls))
    /\ CLASSES_DESERIALIZERS' = IF Contains(CLASSES_DESERIALIZERS, cls)
                                THEN CLASSES_DESERIALIZERS
                                ELSE Append(CLASSES_DESERIALIZERS, cls)
    /\ last' = NoCall
    /\ UNCHANGED <<SERIALIZERS, CLASSES_SERIALIZERS>>

Registries == <<SERIALIZERS, DESERIALIZERS, CLASSES_SERIALIZERS,
                CLASSES_DESERIALIZERS>>

\* The override types handed to dump, and the types handed to load.
DumpClasses == {None, "Base", "Middle", "Foo"}

CommonLoadClasses == {None, "dict", "Child", "Middle", "Foo", "Middle[int]"}

\* `last` holds the call under observation.  A call leaves the registries
\* as they are, so the calls observed from one registry configuration are
\* independent of each other: one is recorded per configuration step.
Dump ==
    \E obj \in DumpValues, cls \in DumpClasses, step \in CommonSteps :
        /\ last = NoCall
        /\ last' = [NoCall EXCEPT !.op = "dump", !.obj = obj, !.cls = cls,
                                  !.script = <<step>>,
                                  !.out = dump(obj, cls, step)]
        /\ UNCHANGED Registries

CommonLoad ==
    \E json_obj \in LoadValues, cls \in CommonLoadClasses, strict \in BOOLEAN,
       step \in CommonSteps :
        /\ last = NoCall
        /\ last' = [NoCall EXCEPT !.op = "common_load", !.obj = json_obj,
                                  !.cls = cls, !.strict = strict,
                                  !.script = <<step>>,
                                  !.out = common_load(json_obj, cls, strict, step)]
        /\ UNCHANGED Registries

SetSerializer == \E cls \in Registrable : set_serializer(cls)

SetDeserializer == \E cls \in Registrable : set_deserializer(cls)

Init ==
    /\ SERIALIZERS = [k \in {} |-> NoFunction]
    /\ DESERIALIZERS = [k \in {} |-> NoFunction]
    /\ CLASSES_SERIALIZERS = <<>>
    /\ CLASSES_DESERIALIZERS = <<>>
    /\ last = NoCall

NextCommon == SetSerializer \/ SetDeserializer \/ Dump \/ CommonLoad

SpecCommon == Init /\ [][NextCommon]_vars

----------------------------------------------------------------------------
(* jsons/_load_impl.py                                                     *)

\* String forward references handed to load as cls.
StrRefs == {"'Child'", "'Nope'"}

\* isinstance(cls, str)
isinstance_str(cls) == cls \in StrRefs

\* get_cls_from_str: the class a string names in the known-classes table;
\* None stands for "unresolvable", which is an error.
get_cls_from_str(cls, json_obj) ==
    IF cls = "'Child'" THEN "Child" ELSE None

\* get_cls_and_meta: the class named under the reserved key of json_obj.
get_cls_and_meta(json_obj) == json_obj.meta

FirstGiven(order) ==
    LET given == SelectSeq(order, LAMBDA elem : elem # None)
    IN  IF given # <<>> THEN given[1] ELSE None

\* determine_precedence: an explicit cls, then the meta-hinted class, then
\* the runtime type; a cls that was inferred rather than supplied by the
\* caller is not explicit and yields to the meta-hinted class.
determine_precedence(cls, cls_from_meta, cls_from_type, inferred_cls) ==
    IF inferred_cls
    THEN FirstGiven(<<cls_from_meta, cls, cls_from_type>>)
    ELSE FirstGiven(<<cls, cls_from_meta, cls_from_type>>)

\* get_deserializer of _lizers_impl: exact entry under the identifier (of
\* the origin for a parameterised generic), else the first registered base.
get_deserializer(cls) ==
    LET cls_name == IF has__name__(cls) THEN __name__(cls)
                    ELSE __name__(__origin__(cls))
        exact == get(DESERIALIZERS, lower(cls_name))
        parents == SelectSeq(CLASSES_DESERIALIZERS,
                             LAMBDA cls_ : cls \in Classes /\ issubclass(cls, cls_))
    IN  IF exact # NoFunction THEN exact
        ELSE IF parents # <<>>
        THEN DESERIALIZERS[lower(__name__(parents[1]))]
        ELSE NoFunction

\* _should_skip without the comparison of type(json_obj) with cls.
_should_skip_none_only(json_obj, cls, strict) ==
    \/ ~strict /\ json_obj = PyNone
    \/ cls = AnyType

_should_skip(json_obj, cls, strict) ==
    \/ ~strict /\ (json_obj = PyNone \/ type(json_obj) = cls)
    \/ cls = AnyType

\* _check_and_get_cls_and_meta_hints with cls and cls_from_meta swapped in
\* the call of determine_precedence.
_check_and_get_cls_meta_first(json_obj, cls, inferred_cls, depth) ==
    IF type(json_obj) \notin VALID_TYPES
    THEN [err |-> Error("DeserializationError", "Invalid type", json_obj.id,
                        cls, depth, 0),
          cls |-> None, events |-> <<>>]
    ELSE IF json_obj = PyNone
    THEN [err |-> Error("DeserializationError",
                        "Cannot load None with strict=True", json_obj.id,
                        cls, depth, 0),
          cls |-> None, events |-> <<>>]
    ELSE LET cls_from_meta == get_cls_and_meta(json_obj)
             resolved == determine_precedence(cls_from_meta, cls,
                                              type(json_obj), inferred_cls)
         IN  [err |-> NoError, cls |-> resolved,
              events |-> <<Event("get_cls_and_meta", depth, json_obj, cls,
                                 NoFunction),
                           Event("determine_precedence", depth, json_obj,
                                 resolved, NoFunction)>>]

\* _check_and_get_cls_and_meta_hints without the check against VALID_TYPES.
_check_and_get_cls_unchecked(json_obj, cls, inferred_cls, depth) ==
    IF json_obj = PyNone
    THEN [err |-> Error("DeserializationError",
                        "Cannot load None with strict=True", json_obj.id,
                        cls, depth, 0),
          cls |-> None, events |-> <<>>]
    ELSE LET cls_from_meta == get_cls_and_meta(json_obj)
             resolved == determine_precedence(cls, cls_from_meta,
                                              type(json_obj), inferred_cls)
         IN  [err |-> NoError, cls |-> resolved,
              events |-> <<Event("get_cls_and_meta", depth, json_obj, cls,
                                 NoFunction),
                           Event("determine_precedence", depth, json_obj,
                                 resolved, NoFunction)>>]

\* The result is the error raised (NoError when none), the resolved cls
\* and the steps performed.
_check_and_get_cls_and_meta_hints(json_obj, cls, inferred_cls, depth) ==
    IF type(json_obj) \notin VALID_TYPES
    THEN [err |-> Error("DeserializationError", "Invalid type", json_obj.id,
                        cls, depth, 0),
          cls |-> None, events |-> <<>>]
    ELSE IF json_obj = PyNone
    THEN [err |-> Error("DeserializationError",
                        "Cannot load None with strict=True", json_obj.id,
                        cls, depth, 0),
          cls |-> None, events |-> <<>>]
    ELSE LET cls_from_meta == get_cls_and_meta(json_obj)
             resolved == determine_precedence(cls, cls_from_meta,
                                              type(json_obj), inferred_cls)
         IN  [err |-> NoError, cls |-> resolved,
              events |-> <<Event("get_cls_and_meta", depth, json_obj, cls,
                                 NoFunction),
                           Event("determine_precedence", depth, json_obj,
                                 resolved, NoFunction)>>]

\* The except clause without the isinstance(err, JsonsError) test.
NormalizeAlways(res, json_obj, cls, depth) ==
    IF res.kind = "raise"
    THEN Raise(Error("DeserializationError", res.err.msg, json_obj.id, cls,
                     depth, res.err.normalized + 1), res.events)
    ELSE res

\* The except clause of load (lines 86-89): res is what the try block did.
Normalize(res, json_obj, cls, depth) ==
    IF res.kind = "raise" /\ ~IsJsonsError(res.err)
    THEN Raise(Error("DeserializationError", res.err.msg, json_obj.id, cls,
                     depth, res.err.normalized + 1), res.events)
    ELSE res

RECURSIVE load(_, _, _, _, _, _)

\* deserializer(json_obj, cls, **kwargs_): script[1] says what the
\* deserializer does, the rest of script what the deserializers of the
\* loads nested in it do.  An exception of a nested load goes through it.
CallDeserializer(fn, json_obj, cls, strict, script, depth, events) ==
    IF fn = NoFunction \/ script[1].do # "load"
    THEN Invoke(fn, json_obj, cls, script[1], depth, events)
    ELSE LET evs == Append(events, Event("converter", depth, json_obj, cls, fn))
             nested == load(script[1].json_obj, script[1].cls, strict, FALSE,
                            Tail(script), depth + 1)
         IN  IF nested.kind = "raise"
             THEN Raise(nested.err, evs \o nested.events)
             ELSE Return(ResultOf(fn, json_obj), evs \o nested.events)

load(json_obj, cls, strict, inferred_cls, script, depth) ==
    LET enter == <<Event("load", depth, json_obj, cls, NoFunction)>>
    IN  IF _should_skip(json_obj, cls, strict) THEN Return(json_obj, enter)
        ELSE
        LET cls1 == IF isinstance_str(cls) THEN get_cls_from_str(cls, json_obj)
                    ELSE cls
            ev1 == IF isinstance_str(cls)
                   THEN Append(enter, Event("get_cls_from_str", depth, json_obj,
                                            cls, NoFunction))
                   ELSE enter
        IN  IF isinstance_str(cls) /\ cls1 = None
            THEN Raise(Error("UnknownClassError", "unknown class", json_obj.id,
                             cls, depth, 0), ev1)
            ELSE
            LET chk == _check_and_get_cls_and_meta_hints(json_obj, cls1,
                                                         inferred_cls, depth)
                ev2 == ev1 \o chk.events
            IN  IF chk.err # NoError THEN Raise(chk.err, ev2)
                ELSE
                LET deserializer == get_deserializer(chk.cls)
                    ev3 == Append(ev2, Event("get_deserializer", depth, json_obj,
                                             chk.cls, deserializer))
                IN  Normalize(CallDeserializer(deserializer, json_obj, chk.cls,
                                               strict, script, depth, ev3),
                              json_obj, chk.cls, depth)

\* json.loads on the texts of the model: the decoded value, or
\* JSONDecodeError (ok = FALSE).
Texts == {"null", "\"s\"", "{}", "{\"-cls\": \"Middle\"}", "not json", "{"}

json_loads(str_) ==
    CASE str_ = "null"   -> [ok |-> TRUE, obj |-> PyNone]
      [] str_ = "\"s\""  -> [ok |-> TRUE,
                             obj |-> [id |-> "'s'", type |-> "str", meta |-> None]]
      [] str_ = "{}"     -> [ok |-> TRUE,
                             obj |-> [id |-> "{}", type |-> "dict", meta |-> None]]
      [] str_ = "{\"-cls\": \"Middle\"}"
                         -> [ok |-> TRUE,
                             obj |-> [id |-> "{-cls}", type |-> "dict",
                                      meta |-> "Middle"]]
      [] OTHER           -> [ok |-> FALSE, obj |-> NoValue]

\* loads raising a DecodeError that carries the decoded object (None)
\* instead of the text.
loads_dropping_text(str_, cls, strict, step) ==
    LET decoded == json_loads(str_)
        ev == <<[name |-> "json.loads", depth |-> 0, json_obj |-> str_,
                 cls |-> cls, fn |-> NoFunction]>>
    IN  IF ~decoded.ok
        THEN Raise(Error("DecodeError", "Could not load a dict", None, cls, 0, 0),
                   ev)
        ELSE LET res == load(decoded.obj, cls, strict, FALSE, <<step>>, 0)
             IN  [res EXCEPT !.events = ev \o res.events]

loads(str_, cls, strict, step) ==
    LET decoded == json_loads(str_)
        ev == <<[name |-> "json.loads", depth |-> 0, json_obj |-> str_,
                 cls |-> cls, fn |-> NoFunction]>>
    IN  IF ~decoded.ok
        THEN Raise(Error("DecodeError", "Could not load a dict", str_, cls, 0, 0),
                   ev)
        ELSE LET res == load(decoded.obj, cls, strict, FALSE, <<step>>, 0)
             IN  [res EXCEPT !.events = ev \o res.events]

\* The bound on the depth of nested load calls.
MaxDepth == 3

LoadClasses == {None, "dict", "Child", "Foo", AnyType, "'Child'", "'Nope'"}

NestedClasses == {None, "Child"}

\* The loads a deserializer makes for an attribute.
NestedSteps ==
    {LoadStep([id |-> "{-cls}", type |-> "dict", meta |-> "Middle"], None),
     LoadStep([id |-> "{}", type |-> "dict", meta |-> None], "Child"),
     LoadStep([id |-> "Foo()", type |-> "Foo", meta |-> None], None)}

\* The scripts of n deserializers, all but the last calling load.
RECURSIVE Scripts(_)

Scripts(n) ==
    IF n = 1 THEN {<<step>> : step \in LeafSteps}
    ELSE {<<step>> \o rest : step \in NestedSteps, rest \in Scripts(n - 1)}

Load ==
    \E json_obj \in LoadValues, cls \in LoadClasses, strict \in BOOLEAN,
       inferred_cls \in BOOLEAN, step \in LeafSteps :
        /\ last = NoCall
        /\ last' = [NoCall EXCEPT !.op = "load", !.obj = json_obj, !.cls = cls,
                                  !.strict = strict,
                                  !.inferred_cls = inferred_cls,
                                  !.script = <<step>>,
                                  !.out = load(json_obj, cls, strict,
                                               inferred_cls, <<step>>, 0)]
        /\ UNCHANGED Registries

\* A load whose deserializer calls load again, to a depth of MaxDepth.
LoadNested ==
    \E n \in 2..MaxDepth, json_obj \in {v \in Values : v.type = "dict"},
       cls \in NestedClasses, strict \in BOOLEAN :
        \E script \in Scripts(n) :
            /\ last = NoCall
            /\ last' = [NoCall EXCEPT !.op = "load", !.obj = json_obj,
                                      !.cls = cls, !.strict = strict,
                                      !.script = script,
                                      !.out = load(json_obj, cls, strict,
                                                   FALSE, script, 0)]
            /\ UNCHANGED Registries

Loads ==
    \E str_ \in Texts, cls \in LoadClasses, strict \in BOOLEAN,
       step \in LeafSteps :
        /\ last = NoCall
        /\ last' = [NoCall EXCEPT !.op = "loads", !.text = str_, !.cls = cls,
                                  !.strict = strict, !.script = <<step>>,
                                  !.out = loads(str_, cls, strict, step)]
        /\ UNCHANGED Registries

Next == SetDeserializer \/ Load \/ LoadNested \/ Loads \/ CommonLoad

Spec == Init /\ [][Next]_vars

----------------------------------------------------------------------------
(* Properties.                                                             *)

\* The names of the steps a call performed.
StepNames(out) == {out.events[i].name : i \in DOMAIN out.events}

\* The steps of one name performed by the load (or dump) at one depth.
StepsOf(out, name, depth) ==
    SelectSeq(out.events, LAMBDA e : e.name = name /\ e.depth = depth)

ResolutionSteps == {"get_cls_from_str", "get_cls_and_meta",
                    "determine_precedence"}

DispatchSteps == {"get_deserializer", "_get_deserializer", "converter"}

IsLoadCall == last.op \in {"load", "common_load"}

\* C1: with strict off and type(json_obj) == cls, load (of either module)
\* returns json_obj itself and performs no resolution, validation, lookup
\* or deserializer call.
C1_IdentityShortCircuit ==
    (IsLoadCall /\ ~last.strict /\ type(last.obj) = last.cls)
    => /\ last.out.kind = "return"
       /\ last.out.value = last.obj
       /\ StepNames(last.out) \subseteq {"load"}
       /\ Len(last.out.events) <= 1

C1_Witness ==
    /\ last.op = "load" /\ ~last.strict
    /\ last.obj.id = "Foo()" /\ last.cls = "Foo"
    /\ last.out.kind = "return" /\ last.out.value = last.obj
    /\ CLASSES_DESERIALIZERS # <<>>

\* C2: load(None, cls, strict=True) raises the deserialization error for an
\* absent cls, a concrete cls and Any, and load(None, cls, strict=False)
\* returns None without calling a deserializer.
C2_StrictNull ==
    (last.op = "load" /\ last.obj = PyNone /\ ~isinstance_str(last.cls))
    => IF last.strict
       THEN /\ last.out.kind = "raise"
            /\ last.out.err.type = "DeserializationError"
       ELSE /\ last.out.kind = "return"
            /\ last.out.value = PyNone
            /\ "converter" \notin StepNames(last.out)

\* The class a load call names explicitly: cls itself, the class a string
\* cls resolves to, None when cls is absent.
ExplicitCls ==
    IF isinstance_str(last.cls) THEN get_cls_from_str(last.cls, last.obj)
    ELSE last.cls

\* The top-level load reached the lookup of a deserializer.
ReachedDispatch == Len(StepsOf(last.out, "get_deserializer", 0)) > 0

\* The classes handed to the dispatcher and to the deserializer by the
\* top-level load.
HandedOver ==
    {last.out.events[i].cls : i \in
        {j \in DOMAIN last.out.events :
            /\ last.out.events[j].depth = 0
            /\ last.out.events[j].name \in {"get_deserializer", "converter"}}}

Converters == SelectSeq(last.out.events, LAMBDA e : e.name = "converter")

Deepest == Converters[Len(Converters)]

DeepestStep == last.script[Deepest.depth + 1]

\* The value the load at a depth was called with.
JsonObjAt(depth) ==
    IF depth = 0 THEN last.obj ELSE last.script[depth].json_obj

\* C6: an exception of a deserializer that is not a structured error is
\* turned into a DeserializationError exactly once, by the load that called
\* that deserializer, with the original message, that load's json_obj and
\* resolved cls; enclosing loads pass it on unchanged, a structured error is
\* passed on unchanged by every load, a failure never yields a result, and
\* what leaves the top-level load is a structured error.
C6_NormalizedOnce ==
    (last.op = "load")
    => /\ (last.out.kind = "raise")
          => IsJsonsError(last.out.err) /\ last.out.err.normalized <= 1
       /\ (Converters # <<>> /\ DeepestStep.do = "raise")
          => /\ last.out.kind = "raise"
             /\ last.out.value = NoValue
             /\ last.out.err =
                  IF DeepestStep.exc \in JsonsErrors
                  THEN Error(DeepestStep.exc, DeepestStep.msg,
                             JsonObjAt(Deepest.depth).id, Deepest.cls,
                             Deepest.depth, 0)
                  ELSE Error("DeserializationError", DeepestStep.msg,
                             JsonObjAt(Deepest.depth).id, Deepest.cls,
                             Deepest.depth, 1)

C6_Witness ==
    /\ last.op = "load" /\ Len(last.script) >= 3
    /\ Converters # <<>> /\ Deepest.depth = 2
    /\ DeepestStep.do = "raise" /\ DeepestStep.exc = "ValueError"
    /\ last.out.kind = "raise"
    /\ last.out.err.type = "DeserializationError"
    /\ last.out.err.raised_at = 2 /\ last.out.err.normalized = 1

\* C7 as stated: an input whose type is not in VALID_TYPES is rejected with
\* the invalid-input-shape error whatever cls and strict are, before any
\* resolution step and before dispatch, and is never returned.
C7_InvalidInputAsStated ==
    (IsLoadCall /\ type(last.obj) \notin VALID_TYPES /\ last.obj # NoValue)
    => /\ last.out.kind = "raise"
       /\ last.out.err.msg = "Invalid type"
       /\ StepNames(last.out) \cap (ResolutionSteps \cup DispatchSteps) = {}

\* C7, amended: an input whose type is not in VALID_TYPES is returned only
\* by the short-circuit (strict off and type(json_obj) == cls, or cls is Any
\* in load of _load_impl); otherwise the call ends in an error without
\* meta-hint lookup, precedence or dispatch: the invalid-input-shape error,
\* except that load of _load_impl resolves a string cls first and raises
\* the error of an unresolvable string instead.
C7_InvalidInput ==
    (IsLoadCall /\ type(last.obj) \notin VALID_TYPES /\ last.obj # NoValue)
    => /\ StepNames(last.out) \cap
            ({"get_cls_and_meta", "determine_precedence"} \cup DispatchSteps)
          = {}
       /\ IF \/ ~last.strict /\ type(last.obj) = last.cls
             \/ last.op = "load" /\ last.cls = AnyType
          THEN /\ last.out.kind = "return"
               /\ last.out.value = last.obj
               /\ StepNames(last.out) \subseteq {"load"}
          ELSE /\ last.out.kind = "raise"
               /\ last.out.err.json_obj = last.obj.id
               /\ IF isinstance_str(last.cls)
                  THEN /\ "get_cls_from_str" \in StepNames(last.out)
                       /\ IF ExplicitCls = None
                          THEN last.out.err.type = "UnknownClassError"
                          ELSE /\ last.out.err.type = "DeserializationError"
                               /\ last.out.err.msg = "Invalid type"
                  ELSE /\ "get_cls_from_str" \notin StepNames(last.out)
                       /\ last.out.err.msg = "Invalid type"
                       /\ last.out.err.type =
                            IF last.op = "load" THEN "DeserializationError"
                            ELSE "KeyError"

C7_Witness ==
    /\ last.op = "load" /\ last.obj.id = "Foo()" /\ last.cls = "'Child'"
    /\ last.strict
    /\ last.out.kind = "raise" /\ last.out.err.msg = "Invalid type"
    /\ StepNames(last.out) = {"load", "get_cls_from_str"}

\* C8: when json.loads fails on the text, loads raises the DecodeError that
\* carries that text and cls, and load is not called; load is called only
\* after a successful decoding, with the decoded value and cls.
C8_DecodeError ==
    (last.op = "loads")
    => /\ ~json_loads(last.text).ok
          => /\ last.out.kind = "raise"
             /\ last.out.err.type = "DecodeError"
             /\ last.out.err.json_obj = last.text
             /\ last.out.err.cls = last.cls
             /\ "load" \notin StepNames(last.out)
       /\ "load" \in StepNames(last.out)
          => /\ json_loads(last.text).ok
             /\ StepsOf(last.out, "load", 0) =
                  <<Event("load", 0, json_loads(last.text).obj, last.cls,
                          NoFunction)>>

C8_Witness ==
    /\ last.op = "loads" /\ last.text = "not json" /\ last.cls = "Child"
    /\ last.out.kind = "raise" /\ last.out.err.type = "DecodeError"
    /\ last.out.err.json_obj = "not json"

\* The type a call of dump or of load (_common_impl) looks a converter up
\* for, and the identifier it is looked up under.
Requested ==
    IF last.cls # None THEN last.cls ELSE type(last.obj)

IdentifierOf(cls) ==
    lower(IF cls \in Classes THEN __name__(cls) ELSE __name__(__origin__(cls)))

\* The common_load call reached the lookup of a deserializer.
LookedUp ==
    /\ last.op = "common_load"
    /\ Len(StepsOf(last.out, "_get_deserializer", 0)) = 1

\* The dump call passed the __slots__ check.
Dumped ==
    /\ last.op = "dump"
    /\ Len(StepsOf(last.out, "SERIALIZERS.get", 0)) = 1

\* The registered bases of a class, in the order of the fallback list.
BasesIn(classes, cls) ==
    SelectSeq(classes, LAMBDA base : cls \in Classes /\ issubclass(cls, base))

\* The converter that was invoked, NoFunction when none was.
Invoked ==
    IF Converters = <<>> THEN NoFunction ELSE Converters[1].fn

\* C4: a type without an entry of its own, with several registered bases,
\* is dispatched to the converter registered for the base that was
\* registered first.
C4_FirstRegisteredBase ==
    /\ (LookedUp /\ Requested \in Classes
           /\ IdentifierOf(Requested) \notin DOMAIN DESERIALIZERS
           /\ Len(BasesIn(CLASSES_DESERIALIZERS, Requested)) >= 2)
       => StepsOf(last.out, "_get_deserializer", 0)[1].fn =
            DeserializerOf(BasesIn(CLASSES_DESERIALIZERS, Requested)[1])
    /\ (Dumped /\ last.cls = None
           /\ IdentifierOf(Requested) \notin DOMAIN SERIALIZERS
           /\ Len(BasesIn(CLASSES_SERIALIZERS, Requested)) >= 2)
       => Invoked = SerializerOf(BasesIn(CLASSES_SERIALIZERS, Requested)[1])

\* The registries hold no converter for a type: no entry under its
\* identifier and no registered base.
Unknown(registry, classes, cls) ==
    /\ IdentifierOf(cls) \notin DOMAIN registry
    /\ BasesIn(classes, cls) = <<>>

\* C5 as stated: dump and load for a type without entry and without
\* registered base end in an error before any converter is invoked, and
\* never return a value.
C5_UnknownTypeAsStated ==
    /\ (last.op = "common_load"
           /\ Unknown(DESERIALIZERS, CLASSES_DESERIALIZERS, Requested))
       => last.out.kind = "raise" /\ Converters = <<>>
    /\ (last.op = "dump"
           /\ Unknown(SERIALIZERS, CLASSES_SERIALIZERS, Requested)
           /\ BasesIn(CLASSES_SERIALIZERS, type(last.obj)) = <<>>)
       => last.out.kind = "raise" /\ Converters = <<>>

\* C5, amended: a dump that passed the __slots__ check, and a load that is
\* not short-circuited and whose input is of a valid type, for a type
\* without entry and without registered base, never return a value and
\* invoke no converter: they end in the TypeError of the lookup (issubclass
\* on a parameterised generic) or of calling the converter None.
C5_UnknownType ==
    /\ (LookedUp /\ Unknown(DESERIALIZERS, CLASSES_DESERIALIZERS, Requested))
       => /\ last.out.kind = "raise"
          /\ last.out.value = NoValue
          /\ last.out.err.type = "TypeError"
          /\ Converters = <<>>
    /\ (last.op = "common_load")
       => LookedUp <=> /\ ~(~last.strict /\ type(last.obj) = last.cls)
                       /\ type(last.obj) \in VALID_TYPES
    /\ (Dumped /\ Unknown(SERIALIZERS, CLASSES_SERIALIZERS, Requested)
           /\ BasesIn(CLASSES_SERIALIZERS, type(last.obj)) = <<>>)
       => /\ last.out.kind = "raise"
          /\ last.out.value = NoValue
          /\ last.out.err.type = "TypeError"
          /\ Converters = <<>>
    /\ (last.op = "dump")
       => Dumped <=> (last.cls = None \/ has__slots__(last.cls))

C5_Witness ==
    /\ LookedUp /\ Requested = "Foo" /\ last.obj.id = "{}"
    /\ Len(CLASSES_DESERIALIZERS) = 3
    /\ last.out.kind = "raise" /\ last.out.err.type = "TypeError"

\* C9: dump looks the converter up under the identifier of cls when cls is
\* given and of type(obj) otherwise; the fallback list is consulted only
\* when there is no entry under that identifier; the converter found is
\* invoked once, with obj.  A cls without __slots__ is rejected before.
C9_DumpTarget ==
    (last.op = "dump")
    => IF last.cls # None /\ ~has__slots__(last.cls)
       THEN last.out.kind = "raise" /\ last.out.events = <<>>
       ELSE LET key == lower(__name__(Requested))
                instances == BasesIn(CLASSES_SERIALIZERS, type(last.obj))
                chosen == IF key \in DOMAIN SERIALIZERS THEN SERIALIZERS[key]
                          ELSE IF instances # <<>>
                          THEN SERIALIZERS[lower(__name__(instances[1]))]
                          ELSE NoFunction
            IN  /\ last.out.events[1].name = "SERIALIZERS.get"
                /\ last.out.events[1].cls = Requested
                /\ "scan" \in StepNames(last.out)
                     <=> key \notin DOMAIN SERIALIZERS
                /\ Converters =
                     IF chosen = NoFunction THEN <<>>
                     ELSE <<Event("converter", 0, last.obj, last.cls, chosen)>>

C9_Witness ==
    /\ last.op = "dump" /\ last.obj.id = "Child()" /\ last.cls = "Middle"
    /\ CLASSES_SERIALIZERS = <<"base", "Middle">>
    /\ Invoked = SerializerOf("Middle")
    /\ "scan" \notin StepNames(last.out)

\* C10: when the registry holds an entry under the identifier of the
\* requested type (of its origin, for a parameterised generic), the lookup
\* yields that entry, whatever the fallback list holds.
C10_ExactMatchFirst ==
    /\ (LookedUp /\ IdentifierOf(Requested) \in DOMAIN DESERIALIZERS)
       => /\ StepsOf(last.out, "_get_deserializer", 0)[1].fn =
               DESERIALIZERS[IdentifierOf(Requested)]
          /\ Invoked = DESERIALIZERS[IdentifierOf(Requested)]
    /\ (Dumped /\ IdentifierOf(Requested) \in DOMAIN SERIALIZERS)
       => /\ "scan" \notin StepNames(last.out)
          /\ Invoked = SERIALIZERS[IdentifierOf(Requested)]

C10_Witness ==
    /\ LookedUp /\ Requested = "Middle[int]"
    /\ CLASSES_DESERIALIZERS = <<"Base", "Middle">>
    /\ Invoked = DeserializerOf("Middle")

====
